---------------------------- MODULE Spec2Model ----------------------------
(***************************************************************************)
(* A model of the CLIP client of clip/src/clip.py: the class Clip, its     *)
(* constructor, _refresh_token, get_bearer_token and lookup, the process   *)
(* environment (os.environ) the token cache lives in, and the two remote   *)
(* endpoints as nondeterministic responders.                               *)
(*                                                                         *)
(* The program is single-threaded: every call is one atomic action.  Each  *)
(* action leaves in `last` what the call did: the requests it issued, in   *)
(* order, what it printed, what it returned or whether it raised, and the  *)
(* state it started from.  The caller then takes the result and goes on    *)
(* (Continue), which empties `last`, before the next call is made.         *)
(***************************************************************************)
EXTENDS Integers, Sequences, FiniteSets, TLC

VARIABLES
    env,      \* os.environ: variable name -> Python value (None when unset)
    clients,  \* the Clip instances: name -> the instance's fields
    now,      \* datetime.now(), in milliseconds on the model's time axis
    last      \* the observation of the most recent call

vars == <<env, clients, now, last>>

---------------------------------------------------------------------------
(* Python values.  One record shape for all of them, so that any two can   *)
(* be compared: t is the type, n the number of an int, s the text of a str.*)

None == [t |-> "none", n |-> 0, s |-> ""]
IntVal(n) == [t |-> "int", n |-> n, s |-> ""]
StrVal(s) == [t |-> "str", n |-> 0, s |-> s]
\* a JSON object (a dict) met where a number or a string was expected
DictVal == [t |-> "dict", n |-> 0, s |-> "{...}"]

\* bool(v), as `if v:` evaluates it
Truthy(v) ==
    CASE v.t = "none" -> FALSE
      [] v.t = "int" -> v.n # 0
      [] v.t = "str" -> v.s # ""
      [] OTHER -> TRUE

\* str(v), and the {v} of an f-string
PyStr(v) ==
    CASE v.t = "none" -> "None"
      [] v.t = "int" -> ToString(v.n)
      [] OTHER -> v.s

---------------------------------------------------------------------------
(* Bounds of the model and constants of the program.                       *)

\* datetime(2010, 1, 1): the origin of the model's time axis
Epoch2010 == 0
\* the lifetime the constructor falls back to, in milliseconds
DefaultExpiresIn == 300000
\* the factor from the server's seconds to the stored milliseconds
MsPerSecond == 1000
\* the time at which the process starts, in milliseconds after Epoch2010
StartNow == 400000
\* the time that passes in one Tick, in milliseconds
TickMs == 1000
\* how many Ticks the model follows
MaxTicks == 1
\* an expires_in, in seconds, longer than the time since Epoch2010
BigSecs == 1000
\* the most row objects the "data" array of a search response holds
MaxRows == 3

Clients == {"c1", "c2"}

\* the expires_in values, in seconds, a token response may report
ExpiresInSecs == {0, 2, BigSecs}

\* the instants the model can reach, and the two the environment may hold
\* as a cached issuance timestamp when the process starts
Times ==
    {StartNow + k * TickMs : k \in 0..MaxTicks}
        \cup {StartNow - TickMs, StartNow - DefaultExpiresIn + TickMs}

\* the integers a lifetime can be
Lifetimes == {DefaultExpiresIn} \cup {s * MsPerSecond : s \in ExpiresInSecs}

---------------------------------------------------------------------------
(* Conversions between values and their text.                              *)

\* datetime.isoformat()
IsoFormat(t) == "T+" \o ToString(t)

\* datetime.fromisoformat(s) succeeds
IsIsoFormat(s) == \E t \in Times : IsoFormat(t) = s

\* datetime.fromisoformat(s)
FromIsoFormat(s) == CHOOSE t \in Times : IsoFormat(t) = s

\* int(v) succeeds: v is an int, or a str holding a decimal numeral
IsIntLike(v) ==
    \/ v.t = "int"
    \/ v.t = "str" /\ \E n \in Lifetimes : ToString(n) = v.s

\* int(v)
PyInt(v) ==
    IF v.t = "int" THEN v.n ELSE CHOOSE n \in Lifetimes : ToString(n) = v.s

\* v * 1000: a product for an int, a thousandfold repetition for a str
\* (written here as the text followed by "*1000", no numeral int() reads)
Times1000(v) ==
    IF v.t = "int" THEN IntVal(v.n * MsPerSecond) ELSE StrVal(v.s \o "*1000")

---------------------------------------------------------------------------
(* The process environment.                                                *)

TokenVars == {"__bearerToken", "__expiresInTime", "__tokenTimestamp"}
ConfigVars ==
    {"clipBatchUrl", "clipLookupUrl", "tokenCredentials", "authorizationUrl"}
EnvVars == TokenVars \cup ConfigVars

\* os.getenv(name)
GetEnv(e, name) == e[name]
\* an os.environ.get(name, default) that lets the caller's value win over
\* the environment's
GetEnvOrArgFirst(e, name, default) == IF default # None THEN default ELSE e[name]
\* os.environ.get(name, default)
GetEnvOr(e, name, default) == IF e[name] = None THEN default ELSE e[name]

\* the token caches the environment may hold when the process starts
InitTokenEnvs ==
    LET recent == StrVal(IsoFormat(StartNow - TickMs))
        older == StrVal(IsoFormat(StartNow - DefaultExpiresIn + TickMs))
        short == StrVal(ToString(2 * MsPerSecond))
    IN  {[tok |-> None, ts |-> None, life |-> None],
         [tok |-> None, ts |-> None, life |-> StrVal("never")],
         [tok |-> StrVal("old"), ts |-> recent, life |-> None],
         [tok |-> StrVal("old"), ts |-> recent, life |-> short],
         [tok |-> StrVal("old"), ts |-> older, life |-> None],
         [tok |-> StrVal("old"), ts |-> StrVal("yesterday"), life |-> None],
         [tok |-> StrVal("old"), ts |-> recent, life |-> StrVal("never")]}

\* the configuration overrides the environment holds: two of the four, so
\* that a client takes two values from the environment and two from its
\* arguments
InitConfigEnvs ==
    {{"clipLookupUrl", "tokenCredentials"}}

InitEnv(tk, cfg) ==
    [v \in EnvVars |->
        CASE v = "__bearerToken" -> tk.tok
          [] v = "__tokenTimestamp" -> tk.ts
          [] v = "__expiresInTime" -> tk.life
          [] OTHER -> IF v \in cfg THEN StrVal("env:" \o v) ELSE None]

---------------------------------------------------------------------------
(* Clip instances.                                                         *)

NoClient ==
    [constructed |-> FALSE,
     bearer_token |-> None, expires_in_time |-> None, token_timestamp |-> None,
     clip_batch_url |-> None, clip_lookup_url |-> None,
     token_credentials |-> None, authorization_url |-> None]

\* the defaults of the constructor's parameters
DefaultArgs ==
    [token_credentials |-> None,
     authorization_url |->
        StrVal("https://api-uat.corelogic.com/edgemicro-auth-clip/token?grant_type=client_credentials"),
     clip_lookup_url |-> StrVal("https://clip-lookup-uat.solutions.corelogic.com"),
     clip_batch_url |-> StrVal("https://clip-batch-uat.solutions.corelogic.com")]

\* the arguments a caller constructs a client with
CtorArgs ==
    {[token_credentials |-> StrVal("Basic abc"),
      authorization_url |-> StrVal("arg:auth"),
      clip_lookup_url |-> StrVal("arg:lookup"),
      clip_batch_url |-> StrVal("arg:batch")]}

\* the parameters of the constructor, and the arguments a call binds them
\* to when it supplies those of S: the caller's value for a parameter
\* supplied, the default for one left out
CtorFields ==
    {"token_credentials", "authorization_url", "clip_lookup_url", "clip_batch_url"}
BindArgs(S) ==
    [f \in CtorFields |-> IF f \in S THEN StrVal("arg:" \o f) ELSE DefaultArgs[f]]

\* Clip.__init__
ClipInit(e, a) ==
    LET life == GetEnv(e, "__expiresInTime")
    IN  [constructed |-> TRUE,
         bearer_token |-> GetEnv(e, "__bearerToken"),
         expires_in_time |-> IF life = None THEN IntVal(DefaultExpiresIn) ELSE life,
         token_timestamp |-> GetEnv(e, "__tokenTimestamp"),
         clip_batch_url |-> GetEnvOr(e, "clipBatchUrl", a.clip_batch_url),
         clip_lookup_url |-> GetEnvOr(e, "clipLookupUrl", a.clip_lookup_url),
         token_credentials |-> GetEnvOr(e, "tokenCredentials", a.token_credentials),
         authorization_url |-> GetEnvOr(e, "authorizationUrl", a.authorization_url)]

---------------------------------------------------------------------------
(* The two endpoints.  A request either fails in transport (requests       *)
(* raises) or is answered with a status and a body.                        *)

\* the body of a token response: text that is no JSON, a JSON array, or a
\* JSON object with the fields access_token and expires_in (None: absent)
TokenBody(kind, tok, exp) == [kind |-> kind, access_token |-> tok, expires_in |-> exp]

TokenBodies ==
    {TokenBody("notjson", None, None), TokenBody("list", None, None),
     TokenBody("dict", None, None), TokenBody("dict", IntVal(7), IntVal(2))}
        \cup {TokenBody("dict", StrVal("abc"), exp) :
                  exp \in {None, DictVal}
                              \cup {IntVal(s) : s \in ExpiresInSecs}}

\* the outcomes of the POST: requests.post raises, or a response arrives.
\* No code reads the status, so every body may come with either status.
NoPost == [sent |-> FALSE, failed |-> FALSE, status |-> 0,
           body |-> TokenBody("notjson", None, None)]
PostFailure == [sent |-> TRUE, failed |-> TRUE, status |-> 0,
                body |-> TokenBody("notjson", None, None)]
PostResponse(status, body) ==
    [sent |-> TRUE, failed |-> FALSE, status |-> status, body |-> body]

PostOutcomes ==
    {PostFailure}
        \cup {PostResponse(200, b) : b \in TokenBodies}
        \cup {PostResponse(401, b) :
                  b \in {TokenBody("notjson", None, None),
                         TokenBody("dict", None, None)}}

\* the outcomes of the POST a lookup meets, one of each course: a transport
\* failure, a grant, a grant whose expires_in breaks the update half-way,
\* and a refusal
LookupPostOutcomes ==
    {PostFailure,
     PostResponse(200, TokenBody("dict", StrVal("abc"), IntVal(2))),
     PostResponse(200, TokenBody("dict", StrVal("abc"), DictVal)),
     PostResponse(401, TokenBody("dict", None, None))}

\* a request as handed to requests.post / requests.get
NoParams ==
    [legacyCountySource |-> None, bestMatch |-> None, googleFallback |-> None,
     apn |-> None, address |-> None, city |-> None, state |-> None,
     zipCode |-> None, latitude |-> None, longitude |-> None,
     owners |-> None, clip |-> None]

Request(method, url, accept, ctype, auth, params) ==
    [method |-> method, url |-> url, accept |-> accept, content_type |-> ctype,
     authorization |-> auth, params |-> params]

---------------------------------------------------------------------------
(* Clip._refresh_token                                                     *)

MsgRefresh == "ERROR: Refreshing token"
MsgConfigure == "ERROR: Configuring internal parameters"
MsgCompare == "ERROR: Failed comparing existing Bearer Token parameters"
MsgGet == "ERROR: GET request failed"
MsgConvert == "ERROR: Converting CLIP response to dataframe"

\* `except Exception` catches an exception of class x: every class the
\* code can raise here derives from Exception
ExceptionClasses ==
    {"ConnectionError", "UnboundLocalError", "JSONDecodeError",
     "AttributeError", "TypeError", "ValueError", "KeyError"}
\* a handler that catches every class but ValueError
ExceptButValueError(x) == x \in ExceptionClasses \ {"ValueError"}
\* a handler that catches the transport's exceptions only
ExceptRequestException(x) == x = "ConnectionError"
ExceptException(x) == x \in ExceptionClasses

\* a refresh that forgets the lifetime when the response reports none, and
\* falls back to the constructor's
ExpiresInTimeOrDefault(self, exp) ==
    IF Truthy(exp) THEN Times1000(exp) ELSE IntVal(DefaultExpiresIn)
\* lines 80-81: the lifetime of the instance after them
ExpiresInTime(self, exp) ==
    IF Truthy(exp) THEN Times1000(exp) ELSE self.expires_in_time

\* a refresh that takes the issuance timestamp from the store as well
AdoptTokenAndTimestamp(self, e) ==
    [self EXCEPT !.bearer_token = GetEnv(e, "__bearerToken"),
                 !.token_timestamp = GetEnv(e, "__tokenTimestamp")]
\* line 84: the instance takes the token from the store
AdoptToken(self, e) ==
    [self EXCEPT !.bearer_token = GetEnv(e, "__bearerToken")]

\* The result of a call: the instance and the environment it leaves, what it
\* printed, the requests it issued, the class of the exception that left the
\* call ("" when it returned), and whether the second try block ran to its
\* end (ok).
RefreshToken(self, e, t, post) ==
    LET request == Request("POST", self.authorization_url, "*/*",
                           "application/json", self.token_credentials, NoParams)
        \* lines 60-71: the POST; a transport failure is caught and printed,
        \* and `response` stays unbound
        exc1 == IF post.failed THEN "ConnectionError" ELSE ""
        printed1 == IF exc1 # "" THEN <<MsgRefresh>> ELSE <<>>
        body == post.body
        tok == body.access_token
        exp == body.expires_in
        \* line 77
        e1 == [e EXCEPT !["__bearerToken"] = tok]
        \* line 78
        e2 == [e1 EXCEPT !["__tokenTimestamp"] = StrVal(IsoFormat(t))]
        \* lines 80-81
        self1 == [self EXCEPT !.expires_in_time = ExpiresInTime(self, exp)]
        \* line 83
        e3 == [e2 EXCEPT !["__expiresInTime"] = StrVal(PyStr(self1.expires_in_time))]
        \* line 84
        self2 == AdoptToken(self1, e3)
        \* the statement of lines 74-84 that raises, and what it raises
        at == CASE post.failed -> 74            \* response is unbound
                [] body.kind = "notjson" -> 74  \* response.json()
                [] body.kind # "dict" -> 77     \* a JSON array has no .get
                [] tok.t # "str" -> 77          \* os.environ takes only a str
                [] Truthy(exp) /\ exp.t = "dict" -> 81  \* dict * 1000
                [] OTHER -> 0
        exc2 == CASE at = 0 -> ""
                  [] post.failed -> "UnboundLocalError"
                  [] body.kind = "notjson" -> "JSONDecodeError"
                  [] body.kind # "dict" -> "AttributeError"
                  [] OTHER -> "TypeError"
        out(s, ev, printed, exc) ==
            [self |-> s, env |-> ev, ok |-> exc1 = "" /\ exc2 = "",
             raised |-> exc, requests |-> <<request>>, reported |-> printed]
    IN  IF exc1 # "" /\ ~ ExceptException(exc1) THEN out(self, e, <<>>, exc1)
        ELSE LET s2 == IF at = 0 THEN self2 ELSE self
                 ev == CASE at = 0 -> e3
                         [] at = 81 -> e2
                         [] OTHER -> e
             IN  IF exc2 = "" THEN out(s2, ev, printed1, "")
                 ELSE IF ExceptException(exc2)
                 THEN out(s2, ev, Append(printed1, MsgConfigure), "")
                 ELSE out(s2, ev, printed1, exc2)

---------------------------------------------------------------------------
(* Clip.get_bearer_token                                                   *)

\* lines 104-109 raise: fromisoformat on text that is no ISO timestamp,
\* int() on a lifetime that is no number
CompareRaises(self) ==
    \/ Truthy(self.token_timestamp)
           /\ ~ (self.token_timestamp.t = "str"
                     /\ IsIsoFormat(self.token_timestamp.s))
    \/ ~ IsIntLike(self.expires_in_time)

\* lines 104-107
TokenDate(self) ==
    IF Truthy(self.token_timestamp)
    THEN FromIsoFormat(self.token_timestamp.s)
    ELSE Epoch2010

\* a comparison with > for >=
ExpiredStrict(self, t) == t - TokenDate(self) > PyInt(self.expires_in_time)
\* line 109: datetime.now() - token_date >= timedelta(milliseconds=int(...))
Expired(self, t) == t - TokenDate(self) >= PyInt(self.expires_in_time)

\* The result of a call: as for RefreshToken, with the number of refreshes
\* made, whether the refresh made succeeded, and the value returned.
GetBearerToken(self, e, t, post) ==
    LET r == RefreshToken(self, e, t, post)
        refresh == ~ CompareRaises(self) /\ Expired(self, t)
        exc == CASE CompareRaises(self) -> "ValueError"
                 [] refresh -> r.raised
                 [] OTHER -> ""
        s1 == IF refresh THEN r.self ELSE self
        out(printed, exn, ret) ==
            [self |-> s1, env |-> IF refresh THEN r.env ELSE e,
             raised |-> exn, ret |-> ret,
             requests |-> IF refresh THEN r.requests ELSE <<>>,
             reported |-> (IF refresh THEN r.reported ELSE <<>>) \o printed,
             refreshes |-> IF refresh THEN 1 ELSE 0,
             refreshOk |-> refresh /\ r.ok]
    IN  IF exc = "" THEN out(<<>>, "", s1.bearer_token)  \* line 112
        \* lines 113-114: printed, and the function ends without a return
        ELSE IF ExceptException(exc) THEN out(<<MsgCompare>>, "", None)
        ELSE out(<<>>, exc, None)

---------------------------------------------------------------------------
(* The search endpoint's answers, and pandas.DataFrame.                    *)

\* A decoded JSON value of a search response: an array, or an object that
\* may hold "data"; data is an array of row objects (each a sequence of
\* <<field, value>> pairs, in the order of the text) or something else.
JsonList == [kind |-> "list", hasData |-> FALSE, dataIsRows |-> FALSE, data |-> <<>>]
JsonError == [kind |-> "dict", hasData |-> FALSE, dataIsRows |-> FALSE, data |-> <<>>]
JsonData(rows) == [kind |-> "dict", hasData |-> TRUE, dataIsRows |-> TRUE, data |-> rows]
JsonScalarData == [kind |-> "dict", hasData |-> TRUE, dataIsRows |-> FALSE, data |-> <<>>]

\* The body of a response as received: text, which is JSON or is not.
JsonText(j) == [isJson |-> TRUE, json |-> j]
NotJsonText == [isJson |-> FALSE, json |-> JsonList]

\* response.json(): the decoded body
ResponseJson(body) == body.json

SearchRows ==
    {<< <<<<"clip", "1">>>>, <<<<"clip", "2">>>> >>,
     << <<<<"clip", "2">>, <<"apn", "7">>>>, <<<<"clip", "1">>>> >>}

NoGet == [sent |-> FALSE, failed |-> FALSE, status |-> 0, body |-> NotJsonText]
GetFailure == [sent |-> TRUE, failed |-> TRUE, status |-> 0, body |-> NotJsonText]
GetResponse(status, body) ==
    [sent |-> TRUE, failed |-> FALSE, status |-> status, body |-> body]

GetOutcomes ==
    {GetFailure}
        \cup {GetResponse(200, JsonText(JsonData(rows))) : rows \in SearchRows}
        \cup {GetResponse(401, JsonText(JsonError)),
              GetResponse(502, NotJsonText)}

\* the row objects a search response may hold: one field, two fields in
\* either order, and none
RowObjects ==
    {<<<<"clip", "1">>>>, <<<<"clip", "2">>>>,
     <<<<"clip", "2">>, <<"apn", "7">>>>, <<<<"apn", "7">>, <<"clip", "1">>>>,
     <<>>}

\* every "data" array of at most MaxRows row objects
RECURSIVE RowSeqs(_)
RowSeqs(n) ==
    IF n = 0 THEN {<<>>}
    ELSE LET shorter == RowSeqs(n - 1)
         IN  shorter \cup {Append(rows, r) : rows \in shorter, r \in RowObjects}

\* every course the GET can take: requests.get raises, or a response
\* arrives with some status and a body that is no JSON, a JSON array, an
\* object without "data", an object whose "data" is a scalar, or an object
\* whose "data" is an array of row objects
SearchOutcomes ==
    {GetFailure}
        \cup {GetResponse(st, b) :
                  st \in {200, 404},
                  b \in {NotJsonText, JsonText(JsonList), JsonText(JsonError),
                         JsonText(JsonScalarData)}
                            \cup {JsonText(JsonData(rows)) : rows \in RowSeqs(MaxRows)}}

\* the column names of a frame built from rows: each field once, in the
\* order of its first appearance
RECURSIVE Columns(_, _)
Columns(pairs, seen) ==
    IF pairs = <<>> THEN seen
    ELSE LET k == Head(pairs)[1]
         IN  Columns(Tail(pairs),
                     IF \E i \in 1..Len(seen) : seen[i] = k THEN seen
                     ELSE Append(seen, k))

RECURSIVE Flatten(_)
Flatten(rows) == IF rows = <<>> THEN <<>> ELSE Head(rows) \o Flatten(Tail(rows))

\* the cell of a row under a column: the field's value, NaN when absent
Cell(row, col) ==
    IF \E i \in 1..Len(row) : row[i][1] = col
    THEN row[CHOOSE i \in 1..Len(row) : row[i][1] = col][2]
    ELSE "NaN"

\* a frame that takes its columns from the first row alone
DataFrameOfFirstRow(rows) ==
    LET cols == IF rows = <<>> THEN <<>> ELSE Columns(Head(rows), <<>>)
    IN  [columns |-> cols,
         rows |-> [i \in 1..Len(rows) |->
                      [j \in 1..Len(cols) |-> Cell(rows[i], cols[j])]]]
\* pd.DataFrame(rows)
DataFrame(rows) ==
    LET cols == Columns(Flatten(rows), <<>>)
    IN  [columns |-> cols,
         rows |-> [i \in 1..Len(rows) |->
                      [j \in 1..Len(cols) |-> Cell(rows[i], cols[j])]]]

\* what a call returns: nothing (None), a Python value, a decoded JSON
\* value, or a frame
NoFrame == [columns |-> <<>>, rows |-> <<>>]
RetNone == [kind |-> "none", val |-> None, json |-> JsonList, frame |-> NoFrame]
RetVal(v) ==
    IF v = None THEN RetNone
    ELSE [kind |-> "value", val |-> v, json |-> JsonList, frame |-> NoFrame]
RetJson(j) == [kind |-> "json", val |-> None, json |-> j, frame |-> NoFrame]
RetFrame(f) == [kind |-> "frame", val |-> None, json |-> JsonList, frame |-> f]

---------------------------------------------------------------------------
(* Clip.lookup                                                             *)

\* the arguments of lookup: None stands for an argument not supplied
NoArgs ==
    [legacy_county_source |-> None, best_match |-> None,
     google_fallback |-> None, apn |-> None, address |-> None, city |-> None,
     state |-> None, zip_code |-> None, latitude |-> None, longitude |-> None,
     owners |-> None, clip |-> None]

\* params that send an empty string for a ZIP code not supplied
LookupParamsDefaulted(args) ==
    [legacyCountySource |-> args.legacy_county_source,
     bestMatch |-> args.best_match,
     googleFallback |-> args.google_fallback,
     apn |-> args.apn,
     address |-> args.address,
     city |-> args.city,
     state |-> args.state,
     zipCode |-> IF args.zip_code = None THEN StrVal("") ELSE args.zip_code,
     latitude |-> args.latitude,
     longitude |-> args.longitude,
     owners |-> args.owners,
     clip |-> args.clip]
\* lines 183-196: the params handed to requests.get
LookupParams(args) ==
    [legacyCountySource |-> args.legacy_county_source,
     bestMatch |-> args.best_match,
     googleFallback |-> args.google_fallback,
     apn |-> args.apn,
     address |-> args.address,
     city |-> args.city,
     state |-> args.state,
     zipCode |-> args.zip_code,
     latitude |-> args.latitude,
     longitude |-> args.longitude,
     owners |-> args.owners,
     clip |-> args.clip]

\* lines 201-205: the frame of the response's "data", None when that raises
ConvertResponse(unbound, get) ==
    LET j == ResponseJson(get.body)
        exc == CASE unbound -> "UnboundLocalError"
                 [] ~ get.body.isJson -> "JSONDecodeError"
                 [] j.kind # "dict" -> "TypeError"
                 [] ~ j.hasData -> "KeyError"
                 [] ~ j.dataIsRows -> "ValueError"
                 [] OTHER -> ""
    IN  IF exc = "" THEN [ret |-> RetFrame(DataFrame(j.data)), raised |-> "",
                          reported |-> <<>>]
        ELSE IF ExceptException(exc)
        THEN [ret |-> RetNone, raised |-> "", reported |-> <<MsgConvert>>]
        ELSE [ret |-> RetNone, raised |-> exc, reported |-> <<>>]

\* a raw branch that returns the frame all the same
RawResponseConverted(unbound, get) == ConvertResponse(unbound, get)
\* lines 206-207: return response.json(), outside any try
RawResponse(unbound, get) ==
    LET exc == CASE unbound -> "UnboundLocalError"
                 [] ~ get.body.isJson -> "JSONDecodeError"
                 [] OTHER -> ""
    IN  IF exc = "" THEN [ret |-> RetJson(ResponseJson(get.body)),
                          raised |-> "", reported |-> <<>>]
        ELSE [ret |-> RetNone, raised |-> exc, reported |-> <<>>]

\* lines 177-207, from the result g of the call of get_bearer_token on
LookupWithToken(g, self, get, args, convert) ==
    LET \* lines 177-197: the header is built, then the GET is issued
        request == Request("GET", StrVal(PyStr(self.clip_lookup_url) \o "/search"),
                           "", "", StrVal("Bearer " \o PyStr(g.ret)),
                           LookupParams(args))
        issued == g.raised = ""
        exc1 == CASE ~ issued -> g.raised
                  [] get.failed -> "ConnectionError"
                  [] OTHER -> ""
        \* lines 198-199: the failure is printed; `response` stays unbound
        printed1 == IF exc1 # "" THEN <<MsgGet>> ELSE <<>>
        requests == IF issued THEN Append(g.requests, request) ELSE g.requests
        rest == IF convert THEN ConvertResponse(exc1 # "", get)
                ELSE RawResponse(exc1 # "", get)
        out(printed, exn, ret) ==
            [self |-> g.self, env |-> g.env, raised |-> exn, ret |-> ret,
             requests |-> requests, reported |-> g.reported \o printed,
             refreshes |-> g.refreshes, refreshOk |-> g.refreshOk]
    IN  IF exc1 # "" /\ ~ ExceptException(exc1) THEN out(<<>>, exc1, RetNone)
        ELSE out(printed1 \o rest.reported, rest.raised, rest.ret)

\* a lookup that asks for the token twice: once to check it, once for the
\* header
LookupTokenTwice(self, e, t, post, get, args, convert) ==
    LET g1 == GetBearerToken(self, e, t, post)
        g2 == GetBearerToken(g1.self, g1.env, t, post)
    IN  LookupWithToken(
            [g2 EXCEPT !.requests = g1.requests \o g2.requests,
                       !.reported = g1.reported \o g2.reported,
                       !.refreshes = g1.refreshes + g2.refreshes],
            self, get, args, convert)
\* a lookup that builds its header from the token the instance holds when
\* the call starts, and checks the token afterwards
LookupStaleToken(self, e, t, post, get, args, convert) ==
    LookupWithToken([GetBearerToken(self, e, t, post) EXCEPT !.ret = self.bearer_token],
                    self, get, args, convert)
\* a lookup that builds its header from the token the store holds once the
\* token check is done
LookupStoreToken(self, e, t, post, get, args, convert) ==
    LET g == GetBearerToken(self, e, t, post)
    IN  LookupWithToken([g EXCEPT !.ret = GetEnv(g.env, "__bearerToken")],
                        self, get, args, convert)
\* a lookup that keeps the search URL it built as the instance's lookup URL
LookupKeepsSearchUrl(self, e, t, post, get, args, convert) ==
    LET r == LookupWithToken(GetBearerToken(self, e, t, post), self, get, args,
                             convert)
    IN  [r EXCEPT !.self.clip_lookup_url =
                       StrVal(PyStr(self.clip_lookup_url) \o "/search")]
\* The result of a call: as for GetBearerToken.
Lookup(self, e, t, post, get, args, convert) ==
    LookupWithToken(GetBearerToken(self, e, t, post), self, get, args, convert)

---------------------------------------------------------------------------
(* The state machine.                                                      *)

\* the fields of a query: the name of lookup's parameter and the name of
\* the request's
Fields ==
    {"legacy_county_source", "best_match", "google_fallback", "apn",
     "address", "city", "state", "zip_code", "latitude", "longitude",
     "owners", "clip"}

\* the query of the docstring's example
ExampleArgs ==
    [NoArgs EXCEPT !.address = StrVal("501 Auburn Avenue NE"),
                   !.city = StrVal("Atlanta"), !.state = StrVal("GA"),
                   !.zip_code = StrVal("30312")]

\* the queries the callers of the main specification make
SampleArgs == {ExampleArgs}

\* every query that supplies a subset of the fields, each supplied field
\* with a text of its own or each with the empty string
AllArgs ==
    {[f \in Fields |->
         IF f \in S THEN (IF empty THEN StrVal("") ELSE StrVal("a " \o f))
         ELSE None] : S \in SUBSET Fields, empty \in BOOLEAN}
        \cup {ExampleArgs, [ExampleArgs EXCEPT !.apn = StrVal("")]}

\* the observation of a call of op on client c, from result r; supplied is
\* the set of parameters a constructor call gave a value for
Observation(op, c, r, post, get, args, convert) ==
    [op |-> op, client |-> c, convert |-> convert, args |-> args,
     post |-> IF \E i \in 1..Len(r.requests) : r.requests[i].method = "POST"
              THEN post ELSE NoPost,
     get |-> IF \E i \in 1..Len(r.requests) : r.requests[i].method = "GET"
             THEN get ELSE NoGet,
     requests |-> r.requests, reported |-> r.reported,
     refreshes |-> r.refreshes, refreshOk |-> r.refreshOk,
     raised |-> r.raised, ret |-> r.ret, supplied |-> {},
     pre |-> [env |-> env, self |-> clients[c], now |-> now]]

NoCall ==
    [op |-> "none", client |-> "", convert |-> FALSE, args |-> NoArgs,
     post |-> NoPost, get |-> NoGet, requests |-> <<>>, reported |-> <<>>,
     refreshes |-> 0, refreshOk |-> FALSE, raised |-> "", ret |-> RetNone,
     supplied |-> {},
     pre |-> [env |-> [v \in EnvVars |-> None], self |-> NoClient, now |-> 0]]

\* the process starts: the environment holds whatever it was given, no
\* client exists yet
Init ==
    /\ \E tk \in InitTokenEnvs, cfg \in InitConfigEnvs : env = InitEnv(tk, cfg)
    /\ clients = [c \in Clients |-> NoClient]
    /\ now = StartNow
    /\ last = NoCall

\* c = Clip(...)
Construct ==
    /\ last = NoCall
    /\ \E c \in Clients, a \in CtorArgs :
        /\ ~ clients[c].constructed
        /\ clients' = [clients EXCEPT ![c] = ClipInit(env, a)]
        /\ last' = Observation("construct", c,
                       [requests |-> <<>>, reported |-> <<>>, refreshes |-> 0,
                        refreshOk |-> FALSE, raised |-> "", ret |-> RetNone],
                       NoPost, NoGet, NoArgs, FALSE)
        /\ UNCHANGED <<env, now>>

\* c._refresh_token()
RefreshCall ==
    /\ last = NoCall
    /\ \E c \in Clients, post \in PostOutcomes :
        LET r == RefreshToken(clients[c], env, now, post)
        IN  /\ clients[c].constructed
            /\ clients' = [clients EXCEPT ![c] = r.self]
            /\ env' = r.env
            /\ last' = Observation("refresh", c,
                           [requests |-> r.requests, reported |-> r.reported,
                            refreshes |-> 1, refreshOk |-> r.ok,
                            raised |-> r.raised, ret |-> RetNone],
                           post, NoGet, NoArgs, FALSE)
            /\ UNCHANGED now

\* c.get_bearer_token()
GetTokenCall ==
    /\ last = NoCall
    /\ \E c \in Clients, post \in PostOutcomes :
        LET r == GetBearerToken(clients[c], env, now, post)
        IN  /\ clients[c].constructed
            /\ clients' = [clients EXCEPT ![c] = r.self]
            /\ env' = r.env
            /\ last' = Observation("get_bearer_token", c,
                           [r EXCEPT !.ret = RetVal(r.ret)],
                           post, NoGet, NoArgs, FALSE)
            /\ UNCHANGED now

\* c.lookup(..., convert=convert)
LookupCall ==
    /\ last = NoCall
    /\ \E c \in Clients, post \in LookupPostOutcomes, get \in GetOutcomes,
       args \in SampleArgs, convert \in BOOLEAN :
        LET r == Lookup(clients[c], env, now, post, get, args, convert)
        IN  /\ clients[c].constructed
            /\ clients' = [clients EXCEPT ![c] = r.self]
            /\ env' = r.env
            /\ last' = Observation("lookup", c, r, post, get, args, convert)
            /\ UNCHANGED now

\* time passes between two calls
Tick ==
    /\ last = NoCall
    /\ now + TickMs <= StartNow + MaxTicks * TickMs
    /\ now' = now + TickMs
    /\ UNCHANGED <<env, clients, last>>

\* the caller has the result of the call and goes on
Continue ==
    /\ last # NoCall
    /\ last' = NoCall
    /\ UNCHANGED <<env, clients, now>>

Next ==
    Construct \/ RefreshCall \/ GetTokenCall \/ LookupCall \/ Tick \/ Continue

Spec == Init /\ [][Next]_vars

---------------------------------------------------------------------------
(* A process that constructs one client, with no token cached, and makes   *)
(* lookup calls with every query; the endpoints answer one way each.       *)

InitParams ==
    /\ env = InitEnv([tok |-> None, ts |-> None, life |-> None], {})
    /\ clients = [c \in Clients |->
                     IF c = "c1" THEN ClipInit(env, DefaultArgs) ELSE NoClient]
    /\ now = StartNow
    /\ last = NoCall

LookupAnyQuery ==
    /\ last = NoCall
    /\ \E args \in AllArgs, convert \in BOOLEAN :
        LET post == PostResponse(200, TokenBody("dict", StrVal("abc"), IntVal(2)))
            get == GetResponse(401, JsonText(JsonError))
            r == Lookup(clients["c1"], env, now, post, get, args, convert)
        IN  /\ clients' = [clients EXCEPT !["c1"] = r.self]
            /\ env' = r.env
            /\ last' = Observation("lookup", "c1", r, post, get, args, convert)
            /\ UNCHANGED now

NextParams == LookupAnyQuery \/ Continue

SpecParams == InitParams /\ [][NextParams]_vars

---------------------------------------------------------------------------
(* A process that constructs one client and makes lookup calls that the    *)
(* search endpoint answers in every way.                                   *)

InitSearch ==
    /\ \E tk \in InitTokenEnvs : env = InitEnv(tk, {})
    /\ clients = [c \in Clients |->
                     IF c = "c1" THEN ClipInit(env, DefaultArgs) ELSE NoClient]
    /\ now = StartNow
    /\ last = NoCall

LookupAnyResponse ==
    /\ last = NoCall
    /\ \E post \in LookupPostOutcomes, get \in SearchOutcomes, convert \in BOOLEAN :
        LET r == Lookup(clients["c1"], env, now, post, get, ExampleArgs, convert)
        IN  /\ clients' = [clients EXCEPT !["c1"] = r.self]
            /\ env' = r.env
            /\ last' = Observation("lookup", "c1", r, post, get, ExampleArgs, convert)
            /\ UNCHANGED now

NextSearch == LookupAnyResponse \/ Continue

SpecSearch == InitSearch /\ [][NextSearch]_vars

---------------------------------------------------------------------------
(* A process that starts with any of the configuration variables set and   *)
(* constructs its clients with any of the constructor's parameters         *)
(* supplied.                                                               *)

InitConfig ==
    /\ \E tk \in InitTokenEnvs, cfg \in SUBSET ConfigVars : env = InitEnv(tk, cfg)
    /\ clients = [c \in Clients |-> NoClient]
    /\ now = StartNow
    /\ last = NoCall

\* c = Clip(...), with the parameters of S supplied
ConstructWith ==
    /\ last = NoCall
    /\ \E c \in Clients, S \in SUBSET CtorFields :
        /\ ~ clients[c].constructed
        /\ clients' = [clients EXCEPT ![c] = ClipInit(env, BindArgs(S))]
        /\ last' = [Observation("construct", c,
                        [requests |-> <<>>, reported |-> <<>>, refreshes |-> 0,
                         refreshOk |-> FALSE, raised |-> "", ret |-> RetNone],
                        NoPost, NoGet, NoArgs, FALSE)
                       EXCEPT !.supplied = S]
        /\ UNCHANGED <<env, now>>

NextConfig == ConstructWith \/ Continue

SpecConfig == InitConfig /\ [][NextConfig]_vars

---------------------------------------------------------------------------
(* What the properties below read off the observation of a call.           *)

Reported(msg) == \E i \in 1..Len(last.reported) : last.reported[i] = msg
Posts == {i \in 1..Len(last.requests) : last.requests[i].method = "POST"}
Gets == {i \in 1..Len(last.requests) : last.requests[i].method = "GET"}

\* the token state of the process-wide store e, and of the instance s
StoreToken(e) ==
    <<e["__bearerToken"], e["__tokenTimestamp"], e["__expiresInTime"]>>
InstanceToken(s) == <<s.bearer_token, s.token_timestamp, s.expires_in_time>>

\* a timestamp and a lifetime the expiry comparison can read
ReadableStamp(ts) == ts.t = "str" /\ IsIsoFormat(ts.s)
ReadableLifetime(life) ==
    life.t = "int" \/ (life.t = "str" /\ \E n \in Lifetimes : ToString(n) = life.s)

\* the store of e holds a token issued less than its lifetime before t
StoreFresh(e, t) ==
    /\ e["__bearerToken"] # None
    /\ ReadableStamp(e["__tokenTimestamp"])
    /\ ReadableLifetime(e["__expiresInTime"])
    /\ t - FromIsoFormat(e["__tokenTimestamp"].s) < PyInt(e["__expiresInTime"])

\* the instance s records a lifetime the expiry comparison can read, and a
\* timestamp it can read or none
InstanceReadable(s) ==
    /\ ReadableLifetime(s.expires_in_time)
    /\ s.token_timestamp = None \/ ReadableStamp(s.token_timestamp)

\* the call made a refresh whose POST was answered with a JSON object
\* carrying a string access_token
TokenGranted ==
    /\ last.refreshes = 1
    /\ last.post.sent /\ ~ last.post.failed
    /\ last.post.body.kind = "dict"
    /\ last.post.body.access_token.t = "str"

---------------------------------------------------------------------------
(* C1..C10                                                                 *)

\* C1: a lookup whose GET fails in transport raises nothing, reports the
\* failure and returns None, whatever convert is.
C1_TransportFailureReturnsNone ==
    (last.op = "lookup" /\ last.get.sent /\ last.get.failed)
        => (last.raised = "" /\ last.ret = RetNone /\ Reported(MsgGet))

\* C2: get_bearer_token, called on a client that holds the cached token
\* (and whose own record is readable) while the store's issuance timestamp
\* is less than the lifetime in the past, returns the cached token and
\* makes no refresh.
C2_FreshTokenIsReused ==
    (/\ last.op = "get_bearer_token"
     /\ InstanceReadable(last.pre.self)
     /\ StoreFresh(last.pre.env, last.pre.now)
     /\ last.pre.self.bearer_token = last.pre.env["__bearerToken"])
        => (last.refreshes = 0 /\ last.ret = RetVal(last.pre.self.bearer_token))

\* C3: a refresh that fails leaves the token, the issuance timestamp and
\* the lifetime as they were, in the store and on the instance.
C3_FailedRefreshKeepsTokenState ==
    (last.refreshes = 1 /\ ~ last.refreshOk)
        => (/\ StoreToken(env) = StoreToken(last.pre.env)
            /\ InstanceToken(clients[last.client]) = InstanceToken(last.pre.self))

C6_GrantIsStored ==
    LET t == last.post.body.access_token
        s == last.post.body.expires_in
    IN  (TokenGranted /\ s.t = "int" /\ s.n >= 0)
            => (/\ env["__bearerToken"] = t
                /\ clients[last.client].bearer_token = t
                /\ env["__expiresInTime"] = StrVal(ToString(s.n * 1000))
                /\ clients[last.client].expires_in_time = IntVal(s.n * 1000)
                /\ env["__tokenTimestamp"] = StrVal(IsoFormat(last.pre.now)))

\* C7 as stated: no call issues more than one request, POST and GET
\* counted together.
C7_AtMostOneRequest ==
    Len(last.requests) <= 1

\* C7 as amended: a refresh and a get_bearer_token issue at most one
\* request, a POST; a lookup issues at most one POST and at most one GET,
\* the POST first.
C7_RequestsPerCall ==
    /\ last.op \in {"refresh", "get_bearer_token"}
           => (Len(last.requests) <= 1 /\ Gets = {})
    /\ last.op = "lookup"
           => (/\ Cardinality(Posts) <= 1 /\ Cardinality(Gets) <= 1
               /\ \A i \in Posts, j \in Gets : i < j)
    /\ last.op = "construct" => last.requests = <<>>

\* C7 witness: a lookup that issued a POST and then a GET.
C7_Witness ==
    /\ last.op = "lookup" /\ Len(last.requests) = 2
    /\ last.requests[1].method = "POST" /\ last.requests[2].method = "GET"

\* C8: once a client has refreshed the token (it holds the token the store
\* holds, with the older timestamp it was constructed with), and that token
\* is less than its lifetime old, get_bearer_token on the other client
\* (whose own record is readable) returns that token and makes no refresh.
C8_OtherClientSeesRefresh ==
    (/\ last.op = "get_bearer_token"
     /\ InstanceReadable(last.pre.self)
     /\ StoreFresh(last.pre.env, last.pre.now)
     /\ \E d \in Clients \ {last.client} :
            /\ clients[d].constructed
            /\ clients[d].bearer_token = last.pre.env["__bearerToken"]
            /\ clients[d].token_timestamp # last.pre.env["__tokenTimestamp"])
        => (last.refreshes = 0 /\ last.ret = RetVal(last.pre.env["__bearerToken"]))

\* C9: with convert=False, a lookup whose GET is answered with a JSON body
\* returns that decoded body, whatever the status, and no frame.
C9_RawBodyReturned ==
    (/\ last.op = "lookup" /\ ~ last.convert
     /\ last.get.sent /\ ~ last.get.failed /\ last.get.body.isJson)
        => (/\ last.raised = ""
            /\ last.ret.kind = "json"
            /\ last.ret.json = last.get.body.json
            /\ last.ret.frame = NoFrame)

\* C9 witness: an error payload with status 401 is returned as it is.
C9_Witness ==
    /\ last.op = "lookup" /\ ~ last.convert
    /\ last.get.status = 401 /\ last.ret.kind = "json"
    /\ last.ret.json = JsonError

\* the name of each field of a query in the request
ParamName ==
    {<<"legacy_county_source", "legacyCountySource">>,
     <<"best_match", "bestMatch">>, <<"google_fallback", "googleFallback">>,
     <<"apn", "apn">>, <<"address", "address">>, <<"city", "city">>,
     <<"state", "state">>, <<"zip_code", "zipCode">>,
     <<"latitude", "latitude">>, <<"longitude", "longitude">>,
     <<"owners", "owners">>, <<"clip", "clip">>}

\* C10: the params of the GET hold, under each field's request name, the
\* value the caller supplied, None for a field not supplied, and no other
\* name.
C10_ParamsAreTheArguments ==
    \A i \in Gets :
        /\ DOMAIN last.requests[i].params = {p[2] : p \in ParamName}
        /\ \A p \in ParamName : last.requests[i].params[p[2]] = last.args[p[1]]

\* C10 witness: the example query with an explicit empty apn was sent.
C10_Witness ==
    /\ last.op = "lookup" /\ Gets # {}
    /\ last.args = [ExampleArgs EXCEPT !.apn = StrVal("")]
    /\ \A i \in Gets :
           /\ last.requests[i].params.zipCode = StrVal("30312")
           /\ last.requests[i].params.apn = StrVal("")
           /\ last.requests[i].params.clip = None

---------------------------------------------------------------------------
(* C11..C19                                                                *)

\* the GET of the call was answered with a JSON object whose "data" is an
\* array of row objects
DataRowsAnswered ==
    /\ last.op = "lookup"
    /\ last.get.sent /\ ~ last.get.failed /\ last.get.body.isJson
    /\ last.get.body.json.kind = "dict"
    /\ last.get.body.json.hasData /\ last.get.body.json.dataIsRows

\* C11: with convert=True and a response whose "data" is an array of n row
\* objects, lookup returns a frame of n rows, the i-th row holding, under
\* the column of each field of the i-th object, that field's value.
C11_FrameOfDataRows ==
    LET data == last.get.body.json.data
        frame == last.ret.frame
    IN  (DataRowsAnswered /\ last.convert)
            => (/\ last.raised = "" /\ last.ret.kind = "frame"
                /\ Len(frame.rows) = Len(data)
                /\ \A i \in 1..Len(data) :
                       /\ Len(frame.rows[i]) = Len(frame.columns)
                       /\ \A k \in 1..Len(data[i]) :
                              \E j \in 1..Len(frame.columns) :
                                  /\ frame.columns[j] = data[i][k][1]
                                  /\ frame.rows[i][j] = data[i][k][2]
                /\ \A j1, j2 \in 1..Len(frame.columns) :
                       frame.columns[j1] = frame.columns[j2] => j1 = j2)

\* C11 witness: the body {"data": [{"clip": "1"}, {"clip": "2"}]} came back
\* as a frame of two rows with the one column clip, "1" above "2".
C11_Witness ==
    /\ DataRowsAnswered /\ last.convert
    /\ last.get.body.json.data = << <<<<"clip", "1">>>>, <<<<"clip", "2">>>> >>
    /\ last.ret.kind = "frame"
    /\ last.ret.frame = [columns |-> <<"clip">>, rows |-> << <<"1">>, <<"2">> >>]

\* the environment variable that overrides each parameter of the constructor
ConfigVar ==
    {<<"token_credentials", "tokenCredentials">>,
     <<"authorization_url", "authorizationUrl">>,
     <<"clip_lookup_url", "clipLookupUrl">>,
     <<"clip_batch_url", "clipBatchUrl">>}

\* the built-in value of each parameter of the constructor
BuiltIn ==
    {<<"token_credentials", None>>,
     <<"authorization_url",
       StrVal("https://api-uat.corelogic.com/edgemicro-auth-clip/token?grant_type=client_credentials")>>,
     <<"clip_lookup_url", StrVal("https://clip-lookup-uat.solutions.corelogic.com")>>,
     <<"clip_batch_url", StrVal("https://clip-batch-uat.solutions.corelogic.com")>>}

\* C12: a construction leaves in each configuration field the environment
\* variable of its name when that is set, else the argument when one was
\* supplied, else the built-in value; it leaves the token and the issuance
\* timestamp of the environment (None when unset) and the lifetime of the
\* environment, 300000 when that is unset; and it issues no request.
C12_ConstructionPrecedence ==
    LET self == clients[last.client]
        e == last.pre.env
    IN  last.op = "construct"
            => (/\ \A cv \in ConfigVar :
                       self[cv[1]] =
                           IF e[cv[2]] # None THEN e[cv[2]]
                           ELSE IF cv[1] \in last.supplied
                           THEN StrVal("arg:" \o cv[1])
                           ELSE (CHOOSE b \in BuiltIn : b[1] = cv[1])[2]
                /\ self.bearer_token = e["__bearerToken"]
                /\ self.token_timestamp = e["__tokenTimestamp"]
                /\ self.expires_in_time =
                       IF e["__expiresInTime"] = None THEN IntVal(300000)
                       ELSE e["__expiresInTime"]
                /\ last.requests = <<>>
                /\ env = e)

\* C12 witness: a construction that took the lookup URL from the
\* environment although one was supplied, the authorization URL from its
\* argument, the batch URL from the built-in value and the default lifetime.
C12_Witness ==
    LET self == clients[last.client]
    IN  /\ last.op = "construct"
        /\ last.supplied = {"clip_lookup_url", "authorization_url"}
        /\ self.clip_lookup_url = StrVal("env:clipLookupUrl")
        /\ self.authorization_url = StrVal("arg:authorization_url")
        /\ self.clip_batch_url = StrVal("https://clip-batch-uat.solutions.corelogic.com")
        /\ self.token_credentials = None
        /\ self.bearer_token = StrVal("old")
        /\ self.expires_in_time = IntVal(300000)

\* the four configuration fields of an instance
ConfigOf(s) ==
    <<s.token_credentials, s.authorization_url, s.clip_lookup_url, s.clip_batch_url>>

\* C13: no step changes a configuration field of a client that has been
\* constructed, whichever call the step is and however the call ends.
C13_ConfigurationIsFixed ==
    [][\A c \in Clients :
           clients[c].constructed
               => (clients'[c].constructed /\ ConfigOf(clients'[c]) = ConfigOf(clients[c]))]_vars

\* C13 witness: a client that took two fields from the environment and two
\* from its arguments still holds them after a lookup that refreshed the
\* token.
C13_Witness ==
    /\ last.op = "lookup" /\ last.refreshOk /\ Cardinality(Gets) = 1
    /\ env["__bearerToken"] = StrVal("abc")
    /\ ConfigOf(clients[last.client])
           = <<StrVal("env:tokenCredentials"), StrVal("arg:auth"),
               StrVal("env:clipLookupUrl"), StrVal("arg:batch")>>

\* the Authorization header of the call's GET requests
GetAuthorizations == {last.requests[i].authorization : i \in Gets}

C15_MalformedBodyNeverRaises ==
    (/\ last.op = "lookup"
     /\ last.get.sent /\ ~ last.get.failed
     /\ \/ ~ last.get.body.isJson
        \/ last.get.body.json.kind = "dict" /\ ~ last.get.body.json.hasData)
        => (/\ last.raised = ""
            /\ \/ last.ret = RetNone /\ Reported(MsgConvert)
               \/ last.get.body.isJson /\ last.ret = RetJson(last.get.body.json))

C17_LifetimeKeptWithoutExpiresIn ==
    (TokenGranted /\ last.post.body.expires_in = None)
        => (/\ last.refreshOk /\ last.raised = ""
            /\ env["__bearerToken"] = last.post.body.access_token
            /\ clients[last.client].bearer_token = last.post.body.access_token
            /\ env["__tokenTimestamp"] = StrVal(IsoFormat(last.pre.now))
            /\ clients[last.client].expires_in_time = last.pre.self.expires_in_time
            /\ env["__expiresInTime"]
                   = IF last.pre.self.expires_in_time.t = "int"
                     THEN StrVal(ToString(last.pre.self.expires_in_time.n))
                     ELSE last.pre.self.expires_in_time)

\* C17 witness: a client that had taken the lifetime 2000 from an earlier
\* response keeps it through a response without expires_in, which replaces
\* the token and the timestamp of the store.
C17_Witness ==
    /\ TokenGranted /\ last.post.body.expires_in = None
    /\ last.pre.self.expires_in_time = IntVal(2000)
    /\ clients[last.client].expires_in_time = IntVal(2000)
    /\ env["__expiresInTime"] = StrVal("2000")
    /\ env["__bearerToken"] = StrVal("abc")
    /\ env["__tokenTimestamp"] # last.pre.env["__tokenTimestamp"]

\* C18: a lookup whose token check made a refresh that failed still issues
\* exactly one GET, after the POST, and the GET carries the token the
\* instance held when the call started, the text None when it held none.
C18_FailedRefreshKeepsLookupGoing ==
    LET tok == last.pre.self.bearer_token
    IN  (last.op = "lookup" /\ last.refreshes = 1 /\ ~ last.refreshOk)
            => (/\ Cardinality(Gets) = 1
                /\ \A i \in Posts, j \in Gets : i < j
                /\ GetAuthorizations
                       = {StrVal("Bearer " \o (IF tok = None THEN "None" ELSE tok.s))}
                /\ last.get.sent)

\* C18 witness: the refresh POST of a lookup failed in transport, and the
\* GET went out with the token "old" and was answered with rows.
C18_Witness ==
    /\ last.op = "lookup" /\ last.refreshes = 1 /\ last.post.failed
    /\ last.pre.self.bearer_token = StrVal("old")
    /\ GetAuthorizations = {StrVal("Bearer old")}
    /\ last.get.status = 200 /\ last.ret.kind \in {"frame", "json"}

\* C19: no step changes the issuance timestamp of a client that has been
\* constructed.
C19_InstanceTimestampIsFixed ==
    [][\A c \in Clients :
           clients[c].constructed
               => clients'[c].token_timestamp = clients[c].token_timestamp]_vars

\* C19 witness: after a refresh that succeeded, the store holds the time of
\* the refresh and the instance that made it still holds no timestamp.
C19_Witness ==
    /\ last.refreshes = 1 /\ last.refreshOk
    /\ env["__tokenTimestamp"] = StrVal(IsoFormat(last.pre.now))
    /\ clients[last.client].bearer_token = env["__bearerToken"]
    /\ clients[last.client].token_timestamp = None

=============================================================================
